---- MODULE Spec2Model ----
(***************************************************************************)
(* Model of GWpy VET's evaluator, gwpy.toolkits.vet.core.evaluate_flag,    *)
(* and of its caller gwvet.tabs.FlagTab.process_state.                     *)
(*                                                                         *)
(* evaluate_flag is modelled statement by statement: binding of the call's *)
(* arguments, the normalisation of `flag`, the veto loop over `triggers`   *)
(* (one action per iteration), the loop over `metrics` (one action per     *)
(* iteration) and the return.  Objects the caller can observe after the    *)
(* call (the trigger table, the table `after`) live in `heap` and are      *)
(* referred to by reference, so that aliasing is something the model can   *)
(* express.                                                                *)
(***************************************************************************)
EXTENDS Integers, Sequences, FiniteSets, TLC

\* ---------------------------------------------------------------- bounds
MaxTriggers == 2
MaxMetrics == 2
MaxFlags == 2

\* ------------------------------------------------------------ the values
\* Python's None, for the variables that hold a reference or a name.
None == "None"
\* A local that has not been assigned yet.
Unset == "unset"

\* References to the two tables a call can touch: the caller's trigger
\* table and the table made by triggers.copy().
TRef == "T"
ARef == "A"
Refs == {TRef, ARef}

\* A cell of a row's 'time' column: a number, a text that float() rejects,
\* or no such column at all.
TimeCells ==
    { [kind |-> "num", v |-> 10], [kind |-> "num", v |-> 15],
      [kind |-> "num", v |-> 20],
      [kind |-> "text", v |-> 0], [kind |-> "absent", v |-> 0] }

\* Sequences over S of length at most n.
SeqsUpTo(S, n) == UNION { [1..m -> S] : m \in 0..n }

\* A table's rows: the row's position in the caller's table identifies it.
RowsOf(cells) == [j \in 1..Len(cells) |-> [id |-> j, time |-> cells[j]]]

TriggerTables == { RowsOf(c) : c \in SeqsUpTo(TimeCells, MaxTriggers) }

\* The `flag` argument: a DataQualityFlag, or raw segment data.  Segments
\* are <<start, end>> pairs, sorted and disjoint.
FlagInputs ==
    { [isFlag |-> FALSE, active |-> << <<10, 20>> >>, known |-> << >>],
      [isFlag |-> TRUE, active |-> << <<0, 10>>, <<20, 30>> >>,
       known |-> << <<0, 30>> >>] }

InjectionInputs == {None, "injections"}

\* The entries a caller can put in `metrics`: a name, or a Metric instance.
MetricEntries ==
    { [kind |-> "str", name |-> "deadtime", needs_triggers |-> FALSE],
      [kind |-> "str", name |-> "efficiency", needs_triggers |-> FALSE],
      [kind |-> "str", name |-> "safety", needs_triggers |-> FALSE],
      [kind |-> "str", name |-> "bogus", needs_triggers |-> FALSE],
      [kind |-> "inst", name |-> "Safety", needs_triggers |-> TRUE] }

MetricLists == SeqsUpTo(MetricEntries, MaxMetrics)

\* What a metric's own computation can raise.
MetricErrors == {"ZeroDivisionError", "KeyError"}

\* The analysis states of a FlagTab.
TabStates == {"All", "Science"}

VARIABLES
    pc,             \* position in evaluate_flag
    caller,         \* "direct", or the state process_state was called for
    flagArg,        \* the caller's flag object
    triggersArg,    \* the caller's trigger table: None or a reference
    metricsArg,     \* the caller's metrics list
    injectionsArg,  \* the caller's injections
    entry,          \* the caller's objects as they were when the call began
    heap,           \* reference -> rows of the table
    flag,           \* local `flag` (after normalisation)
    after,          \* local `after`: Unset, None or a reference
    i,              \* position of the veto loop in `triggers`
    k,              \* position of the metrics loop in `metrics`
    out,            \* local `out`: the OrderedDict, as a sequence of items
    tested,         \* ids of the rows whose time was tested against the flag
    calls,          \* the metric invocations made so far
    error,          \* the exception evaluate_flag ended with, or None
    returned,       \* << >>, or the one pair evaluate_flag returned
    tabResults,     \* FlagTab.results: state -> << >> or <<results>>
    tab             \* the FlagTab: name, flags, intersection, metaflag

vars == << pc, caller, flagArg, triggersArg, metricsArg, injectionsArg, entry,
           heap, flag, after, i, k, out, tested, calls, error, returned,
           tabResults,
                    tab >>

\* ------------------------------------------------- gwpy / glue primitives
\* DataQualityFlag(active=flag): raw segment data wrapped into a flag with
\* no known segments; a DataQualityFlag is used as it is.
Normalize(f) ==
    IF f.isFlag THEN f ELSE [isFlag |-> TRUE, active |-> f.active, known |-> << >>]

\* x in segmentlist: a scan of the segments, each one half-open.
RECURSIVE InActive(_, _)
InActive(x, segs) ==
    IF segs = << >> THEN FALSE
    ELSE IF Head(segs)[1] <= x /\ x < Head(segs)[2] THEN TRUE
    ELSE InActive(x, Tail(segs))

\* A copy that takes the rows along, as list.copy() does.
TableCopyWithRows(rows) == rows

\* triggers.copy() of a glue.ligolw.table.Table, the type the docstring
\* gives for `triggers`: a new table with the same columns; the rows are
\* not copied.
TableCopy(rows) == << >>

\* `after = triggers`: no copy, the same table under a second name.
CopyRefAlias(ref) == ref

\* The reference `after` is bound to by `after = triggers.copy()`: a table
\* of its own.
CopyRef(ref) == ARef

\* An empty table standing in for "no triggers given".
AfterWithoutTriggersEmpty == ARef

\* Line 71: `after` when no triggers are given.
AfterWithoutTriggers == None

\* A lookup that turns a cell it cannot read into time 0.
TimeLookupLenient(row) ==
    IF row.time.kind = "num"
    THEN [ok |-> TRUE, v |-> row.time.v, err |-> None]
    ELSE [ok |-> TRUE, v |-> 0, err |-> None]

\* get_row_value(t, 'time') followed by float(): the number, or the
\* exception raised.
TimeLookup(row) ==
    CASE row.time.kind = "num" -> [ok |-> TRUE, v |-> row.time.v, err |-> None]
      [] row.time.kind = "text" -> [ok |-> FALSE, v |-> 0, err |-> "ValueError"]
      [] OTHER -> [ok |-> FALSE, v |-> 0, err |-> "AttributeError"]

\* str.lower() on the metric names in use.
Lower(name) == IF name = "Safety" THEN "safety" ELSE name

\* The metric registry: lower-cased name -> Metric.
RegisteredNames == {"deadtime", "efficiency", "safety"}

Registry ==
    [n \in RegisteredNames |->
        [name |-> n, needs_triggers |-> (n = "efficiency")]]

\* get_metric(name) finds an entry for the name.
IsRegistered(name) == Lower(name) \in RegisteredNames

get_metric(name) == Registry[Lower(name)]

\* Lines 76-79: a Metric instance is used as it is, a name is looked up.
NeedsLookup(metric) == metric.kind # "inst"

Resolve(metric) ==
    IF NeedsLookup(metric)
    THEN get_metric(metric.name)
    ELSE [name |-> metric.name, needs_triggers |-> metric.needs_triggers]

\* The dispatch with the name compared as it is written.
DispatchShapeCaseSensitive(m) ==
    IF m.name = "safety" THEN "flag_injections"
    ELSE IF m.needs_triggers THEN "flag_triggers_after"
    ELSE "flag"

\* Lines 80-85: the arguments the resolved metric is invoked with.
DispatchShape(m) ==
    IF Lower(m.name) = "safety" THEN "flag_injections"
    ELSE IF m.needs_triggers THEN "flag_triggers_after"
    ELSE "flag"

NotPassed == "-"

\* The invocation of metric m at position pos of `metrics`.
Invocation(pos, m, fl, trig, aft, inj, outcome) ==
    LET shape == DispatchShape(m) IN
    [ at |-> pos, metric |-> m.name, shape |-> shape, flag |-> fl,
      triggers |-> IF shape = "flag_triggers_after" THEN trig ELSE NotPassed,
      after |-> IF shape = "flag_triggers_after" THEN aft ELSE NotPassed,
      injections |-> IF shape = "flag_injections" THEN inj ELSE NotPassed,
      outcome |-> outcome ]

\* An invocation wrapped in try/except: nothing leaves the loop.
MetricRaisedCaught(outcome) == FALSE

\* Lines 80-85 have no handler: whatever the metric raises leaves
\* evaluate_flag.
MetricRaised(outcome) == outcome # "ok"

\* The Result a metric invocation returns.
ResultOf(pos, m) == [metric |-> m.name, at |-> pos]

\* A mapping that puts a new key in front.
OdSetFront(od, key, value) ==
    IF \E p \in 1..Len(od) : od[p].key = key
    THEN [p \in 1..Len(od) |->
            IF od[p].key = key THEN [key |-> key, value |-> value] ELSE od[p]]
    ELSE << [key |-> key, value |-> value] >> \o od

\* out[key] = value on an OrderedDict: a key already present keeps its
\* place and takes the new value, a new key goes to the end.
OdSet(od, key, value) ==
    IF \E p \in 1..Len(od) : od[p].key = key
    THEN [p \in 1..Len(od) |->
            IF od[p].key = key THEN [key |-> key, value |-> value] ELSE od[p]]
    ELSE Append(od, [key |-> key, value |-> value])

OdKeys(od) == [p \in 1..Len(od) |-> od[p].key]

\* def evaluate_flag(flag, triggers=None, metrics=[...], injections=None)
EvaluateFlagParams == {"flag", "triggers", "metrics", "injections"}

\* The keywords of a call by the documented signature.
DirectKeywords == {"triggers", "metrics", "injections"}

\* The keywords FlagTab.process_state passes.
ProcessStateKeywords ==
    {"triggers", "metrics", "injections", "minduration", "vetotag",
     "channel", "etg"}

\* Python accepts a call only if the function has a parameter for each
\* keyword.
Binds(keywords) == keywords \subseteq EvaluateFlagParams

\* ------------------------------------------------------------ the FlagTab
\* Text is a sequence of pieces: a name is one piece, a separator or a
\* piece of punctuation is one piece.
\* A flag as the caller gives it: a name, or a (name, sourcefile) 2-tuple.
FlagSpecs ==
    { [isTuple |-> FALSE, name |-> "H1:A", file |-> ""],
      [isTuple |-> FALSE, name |-> "H1:B", file |-> ""],
      [isTuple |-> TRUE, name |-> "H1:A", file |-> "segs.xml"],
      [isTuple |-> TRUE, name |-> "H1:C", file |-> "segs.xml"] }

\* The `name` argument: a descriptive name, or a flag (lines 95-98).
DefaultTabName == [isTuple |-> FALSE, name |-> "H1:A", file |-> ""]

TabNames ==
    { [isTuple |-> FALSE, name |-> "Vetoes", file |-> ""] } \cup FlagSpecs

FlagLists == SeqsUpTo(FlagSpecs, MaxFlags)

\* str(x): a string is itself; a tuple is written as "('name', 'file')".
Str(x) ==
    IF x.isTuple THEN << "('", x.name, "', '", x.file, "')" >> ELSE << x.name >>

\* sep.join(parts), parts being texts.
RECURSIVE Join(_, _)
Join(sep, parts) ==
    IF parts = << >> THEN << >>
    ELSE IF Len(parts) = 1 THEN parts[1]
    ELSE parts[1] \o << sep >> \o Join(sep, Tail(parts))

\* map(str, flags)
MapStr(flags) == [j \in 1..Len(flags) |-> Str(flags[j])]

\* FlagTab.__init__, lines 95-114: without flags the name is the one flag
\* (and of a tuple name the first element is the tab's name); the metaflag
\* joins str(flag) by '&' for the intersection, by '|' otherwise.
FlagTabInit(name, flags, intersection) ==
    LET flags1 == IF Len(flags) = 0 THEN << name >> ELSE flags
    IN  [ name |-> IF Len(flags) = 0 /\ name.isTuple
                   THEN << name.name >>
                   ELSE Str(name),
          flags |-> flags1,
          labels |-> MapStr(flags1),
          intersection |-> intersection,
          metaflag |-> IF intersection
                       THEN Join("&", MapStr(flags1))
                       ELSE Join("|", MapStr(flags1)) ]

\* ------------------------------------------------------------------ Init
NoEntry == [flag |-> [isFlag |-> TRUE, active |-> << >>, known |-> << >>],
            triggers |-> None, rows |-> << >>, metrics |-> << >>,
            injections |-> None]

Init ==
    /\ pc = "idle"
    /\ caller = "direct"
    /\ flagArg = NoEntry.flag
    /\ triggersArg = None
    /\ metricsArg = << >>
    /\ injectionsArg = None
    /\ entry = NoEntry
    /\ heap = [r \in Refs |-> << >>]
    /\ flag = NoEntry.flag
    /\ after = Unset
    /\ i = 1
    /\ k = 1
    /\ out = << >>
    /\ tested = << >>
    /\ calls = << >>
    /\ error = None
    /\ returned = << >>
    /\ tabResults = [s \in TabStates |-> << >>]
    /\ tab = FlagTabInit(DefaultTabName, << >>, FALSE)

\* --------------------------------------------------------------- actions
\* The call: the caller's objects are put in place, the keywords are bound
\* to the parameters (TypeError if one has no parameter), and lines 60-61
\* normalise `flag`.
Enter(who, f, rows, hasTriggers, m, inj, keywords) ==
    /\ caller' = who
    /\ flagArg' = f
    /\ triggersArg' = IF hasTriggers THEN TRef ELSE None
    /\ metricsArg' = m
    /\ injectionsArg' = inj
    /\ heap' = [r \in Refs |-> IF r = TRef /\ hasTriggers THEN rows ELSE << >>]
    /\ entry' = [flag |-> f, triggers |-> IF hasTriggers THEN TRef ELSE None,
                 rows |-> IF hasTriggers THEN rows ELSE << >>,
                 metrics |-> m, injections |-> inj]
    /\ after' = Unset
    /\ i' = 1
    /\ k' = 1
    /\ out' = << >>
    /\ tested' = << >>
    /\ calls' = << >>
    /\ returned' = << >>
    /\ IF Binds(keywords)
       THEN /\ flag' = Normalize(f)
            /\ pc' = "veto"
            /\ error' = None
       ELSE /\ flag' = f
            /\ pc' = "raised"
            /\ error' = "TypeError"
    /\ UNCHANGED << tabResults, tab >>

\* evaluate_flag(flag, triggers=..., metrics=..., injections=...)
Call ==
    /\ pc = "idle"
    /\ \E f \in FlagInputs, hasTriggers \in BOOLEAN, rows \in TriggerTables,
       m \in MetricLists, inj \in InjectionInputs :
        /\ (~hasTriggers => rows = << >>)
        /\ Enter("direct", f, rows, hasTriggers, m, inj, DirectKeywords)

\* FlagTab.process_state(state), lines 292-317: the segments of the
\* metaflag, the triggers of the channel (None without a channel), and the
\* call of evaluate_flag with the tab's metrics and injections=None.
ProcessState ==
    /\ pc = "idle"
    /\ \E s \in TabStates, segs \in {f \in FlagInputs : f.isFlag},
       hasChannel \in BOOLEAN, before \in TriggerTables, m \in MetricLists :
        /\ (~hasChannel => before = << >>)
        /\ Enter(s, segs, before, hasChannel, m, None, ProcessStateKeywords)

\* Lines 64-65 and 70-71.
VetoStart ==
    /\ pc = "veto"
    /\ after = Unset
    /\ IF triggersArg # None
       THEN /\ after' = CopyRef(triggersArg)
            /\ heap' = [heap EXCEPT ![CopyRef(triggersArg)] =
                            TableCopy(heap[triggersArg])]
            /\ pc' = "veto"
       ELSE /\ after' = AfterWithoutTriggers
            /\ heap' = heap
            /\ pc' = "metrics"
    /\ UNCHANGED << caller, flagArg, triggersArg, metricsArg, injectionsArg,
                    entry, flag, i, k, out, tested, calls, error, returned,
                    tabResults,
                    tab >>

\* Lines 66-69: one iteration of `for t in triggers`, or the loop's end.
VetoStep ==
    /\ pc = "veto"
    /\ after # Unset
    /\ IF i > Len(heap[triggersArg])
       THEN /\ pc' = "metrics"
            /\ UNCHANGED << heap, i, tested, error >>
       ELSE LET t == heap[triggersArg][i]
                x == TimeLookup(t)
            IN  IF ~x.ok
                THEN /\ pc' = "raised"
                     /\ error' = x.err
                     /\ UNCHANGED << heap, i, tested >>
                ELSE /\ tested' = Append(tested, t.id)
                     /\ i' = i + 1
                     /\ heap' = IF InActive(x.v, flag.active)
                                THEN heap
                                ELSE [heap EXCEPT ![after] = Append(@, t)]
                     /\ UNCHANGED << pc, error >>
    /\ UNCHANGED << caller, flagArg, triggersArg, metricsArg, injectionsArg,
                    entry, flag, after, k, out, calls, returned, tabResults,
                    tab >>

\* Lines 75-85: one iteration of `for metric in metrics`.
MetricStep ==
    /\ pc = "metrics"
    /\ k <= Len(metricsArg)
    /\ LET metric == metricsArg[k] IN
       IF NeedsLookup(metric) /\ ~IsRegistered(metric.name)
       THEN /\ pc' = "raised"
            /\ error' = "UnknownMetricError"
            /\ UNCHANGED << k, out, calls >>
       ELSE LET _metric == Resolve(metric) IN
            \E outcome \in {"ok"} \cup MetricErrors :
                /\ calls' = Append(calls,
                        Invocation(k, _metric, flag, triggersArg, after,
                                   injectionsArg, outcome))
                /\ IF ~MetricRaised(outcome)
                   THEN /\ out' = OdSet(out, metric, ResultOf(k, _metric))
                        /\ k' = k + 1
                        /\ UNCHANGED << pc, error >>
                   ELSE /\ pc' = "raised"
                        /\ error' = outcome
                        /\ UNCHANGED << k, out >>
    /\ UNCHANGED << caller, flagArg, triggersArg, metricsArg, injectionsArg,
                    entry, heap, flag, after, i, tested, returned, tabResults,
                    tab >>

\* Line 87, and for a call by process_state the assignment of element [0]
\* of the pair to self.results[state] (tabs.py line 314).
Return ==
    /\ pc = "metrics"
    /\ k > Len(metricsArg)
    /\ pc' = "returned"
    /\ returned' = << [results |-> out, after |-> after] >>
    /\ tabResults' = IF caller \in TabStates
                     THEN [tabResults EXCEPT ![caller] = << out >>]
                     ELSE tabResults
    /\ UNCHANGED << caller, flagArg, triggersArg, metricsArg, injectionsArg,
                    entry, heap, flag, after, i, k, out, tested, calls, error,
                    tab >>

\* The call is over: its frame is gone and the caller lets go of the
\* arguments and of what it got back.  What the tab stored stays.
Finish ==
    /\ pc \in {"returned", "raised"}
    /\ pc' = "idle"
    /\ caller' = "direct"
    /\ flagArg' = NoEntry.flag
    /\ triggersArg' = None
    /\ metricsArg' = << >>
    /\ injectionsArg' = None
    /\ entry' = NoEntry
    /\ heap' = [r \in Refs |-> << >>]
    /\ flag' = NoEntry.flag
    /\ after' = Unset
    /\ i' = 1
    /\ k' = 1
    /\ out' = << >>
    /\ tested' = << >>
    /\ calls' = << >>
    /\ error' = None
    /\ returned' = << >>
    /\ UNCHANGED << tabResults, tab >>

\* tab = FlagTab(name, flags=..., intersection=...): a new tab with no
\* results yet (line 116).
FlagTabNew ==
    /\ pc = "idle"
    /\ \E name \in TabNames, flags \in FlagLists, intersection \in BOOLEAN :
        tab' = FlagTabInit(name, flags, intersection)
    /\ tabResults' = [s \in TabStates |-> << >>]
    /\ UNCHANGED << pc, caller, flagArg, triggersArg, metricsArg,
                    injectionsArg, entry, heap, flag, after, i, k, out, tested,
                    calls, error, returned >>

Next ==
    \/ Call
    \/ ProcessState
    \/ VetoStart
    \/ VetoStep
    \/ MetricStep
    \/ Return
    \/ Finish

Spec == Init /\ [][Next]_vars

\* The construction of tabs alone.
NextTab == FlagTabNew

SpecTab == Init /\ [][NextTab]_vars

TypeOK ==
    /\ pc \in {"idle", "veto", "metrics", "returned", "raised"}
    /\ caller \in {"direct"} \cup TabStates
    /\ after \in {Unset, None} \cup Refs
    /\ Len(returned) <= 1

\* ---------------------------------------------------------------- claims
\* What the formulas below say about a call, stated without the loops.
TriggersGiven == triggersArg # None

\* t lies in one of the half-open segments.
Vetoes(segs, t) == \E p \in 1..Len(segs) : segs[p][1] <= t /\ t < segs[p][2]

Occurrences(seq, x) == Cardinality({p \in 1..Len(seq) : seq[p] = x})

ReturnedPair == returned[1]

\* C1: when evaluate_flag returns for a trigger table T, the rows of `after`
\* are the rows of T whose time is not in flag.active, in T's order, each
\* once; a vetoed row is not in `after`.
C1_AfterIsTheSurvivors ==
    (pc = "returned" /\ TriggersGiven) =>
        LET T == entry.rows
            A == heap[ReturnedPair.after]
            Survives(r) == ~Vetoes(entry.flag.active, r.time.v)
        IN  /\ A = SelectSeq(T, Survives)
            /\ \A j \in 1..Len(T) :
                 Occurrences(A, T[j]) = IF Survives(T[j]) THEN 1 ELSE 0

\* A call that returned with one row vetoed and one row kept.
C1_Witness ==
    /\ pc = "returned"
    /\ TriggersGiven
    /\ Len(entry.rows) = 2
    /\ Len(heap[ReturnedPair.after]) = 1

\* C2: the n-th invocation is of the n-th entry of `metrics`, and its
\* arguments are (flag, injections) for a metric named 'safety' in any
\* case, whatever its needs_triggers; else (flag, triggers, after=after) if
\* needs_triggers, also with triggers and after None; else (flag).  A call
\* that returned made one invocation per entry.
C2_DispatchShape ==
    /\ \A n \in 1..Len(calls) :
         LET c == calls[n]
             m == Resolve(metricsArg[n])
         IN  /\ c.at = n
             /\ c.metric = m.name
             /\ c.flag = Normalize(entry.flag)
             /\ IF m.name \in {"safety", "Safety"}
                THEN /\ c.shape = "flag_injections"
                     /\ c.injections = injectionsArg
                     /\ c.triggers = NotPassed
                     /\ c.after = NotPassed
                ELSE IF m.needs_triggers
                THEN /\ c.shape = "flag_triggers_after"
                     /\ c.triggers = triggersArg
                     /\ c.after = after
                     /\ c.injections = NotPassed
                ELSE /\ c.shape = "flag"
                     /\ c.triggers = NotPassed
                     /\ c.after = NotPassed
                     /\ c.injections = NotPassed
    /\ pc = "returned" => Len(calls) = Len(metricsArg)

\* A call without triggers that invoked a 'Safety' instance that needs
\* triggers, and then a metric that needs triggers.
C2_Witness ==
    /\ pc = "returned"
    /\ ~TriggersGiven
    /\ Len(calls) = 2
    /\ metricsArg[1].kind = "inst"
    /\ calls[1].shape = "flag_injections"
    /\ calls[2].shape = "flag_triggers_after"
    /\ calls[2].after = None

\* The entries of a list without the repetitions, each at its first place.
RECURSIVE FirstOccurrences(_)
FirstOccurrences(seq) ==
    IF seq = << >> THEN << >>
    ELSE LET init == [p \in 1..(Len(seq) - 1) |-> seq[p]]
             last == seq[Len(seq)]
         IN  IF \E p \in 1..Len(init) : init[p] = last
             THEN FirstOccurrences(init)
             ELSE Append(FirstOccurrences(init), last)

LastIndexOf(seq, x) ==
    CHOOSE p \in 1..Len(seq) :
        /\ seq[p] = x
        /\ \A q \in (p + 1)..Len(seq) : seq[q] # x

C4_NoMetricBeforeUnknownName ==
    (pc = "raised" /\ error = "UnknownMetricError") => calls = << >>

\* C5: a call with triggers that ends with UnknownMetricError has tested no
\* trigger against flag.active and has not computed `after`.
C5_NoPartitionBeforeUnknownName ==
    (pc = "raised" /\ error = "UnknownMetricError" /\ TriggersGiven) =>
        /\ tested = << >>
        /\ after = Unset

\* C6: an invocation that raised is the last one made; evaluate_flag has
\* ended with that very error and has returned nothing, and the mapping
\* holds no record for it.
C6_MetricErrorPropagates ==
    \A n \in 1..Len(calls) :
        calls[n].outcome # "ok" =>
            /\ n = Len(calls)
            /\ pc = "raised"
            /\ error = calls[n].outcome
            /\ returned = << >>
            /\ Len(out) < n

\* The second metric of two raised.
C6_Witness ==
    /\ pc = "raised"
    /\ Len(calls) = 2
    /\ calls[1].outcome = "ok"
    /\ calls[2].outcome = "KeyError"
    /\ error = "KeyError"

\* C7: the returned `after` is None exactly if `triggers` was None; with
\* triggers it is a table, also when it has no rows.
C7_AfterNoneIffNoTriggers ==
    pc = "returned" =>
        /\ (ReturnedPair.after = None) <=> ~TriggersGiven
        /\ TriggersGiven => ReturnedPair.after \in Refs

\* A call that returned with every one of its triggers vetoed.
C7_Witness ==
    /\ pc = "returned"
    /\ TriggersGiven
    /\ Len(entry.rows) = 2
    /\ ReturnedPair.after \in Refs
    /\ heap[ReturnedPair.after] = << >>

\* C8: during and after a call the caller's flag, trigger table (rows,
\* order, length), metrics and injections are what they were when the call
\* began, and `after` is another table than `triggers`.
C8_InputsUnchanged ==
    pc # "idle" =>
        /\ flagArg = entry.flag
        /\ metricsArg = entry.metrics
        /\ injectionsArg = entry.injections
        /\ triggersArg = entry.triggers
        /\ TriggersGiven => heap[triggersArg] = entry.rows
        /\ after \in Refs => after # triggersArg

\* A call with raw segment data as flag that appended a survivor to `after`.
C8_Witness ==
    /\ pc = "returned"
    /\ TriggersGiven
    /\ ~flagArg.isFlag
    /\ Len(heap[after]) >= 1
    /\ Len(heap[triggersArg]) = 2

\* A row whose time cannot be read as a float.
Unreadable(r) == r.time.kind # "num"

FirstUnreadable(rows) ==
    CHOOSE j \in 1..Len(rows) :
        /\ Unreadable(rows[j])
        /\ \A q \in 1..(j - 1) : ~Unreadable(rows[q])

\* C9: a call that was accepted with a trigger table holding an unreadable
\* row never gets past the veto loop: it invokes no metric and returns
\* nothing, no unreadable row is in `after`, and it ends with the error of
\* the first unreadable row, the rows before it tested and none after.
C9_UnreadableTimeAborts ==
    (TriggersGiven /\ error # "TypeError" /\ pc # "idle"
        /\ \E j \in 1..Len(entry.rows) : Unreadable(entry.rows[j])) =>
        LET bad == FirstUnreadable(entry.rows) IN
        /\ pc \in {"veto", "raised"}
        /\ calls = << >>
        /\ returned = << >>
        /\ \A p \in 1..Len(heap[ARef]) : ~Unreadable(heap[ARef][p])
        /\ Len(tested) < bad
        /\ pc = "raised" =>
             /\ error = (IF entry.rows[bad].time.kind = "text"
                         THEN "ValueError" ELSE "AttributeError")
             /\ tested = [p \in 1..(bad - 1) |-> p]

\* The second of two rows has no 'time'; the first one was kept.
C9_Witness ==
    /\ pc = "raised"
    /\ error = "AttributeError"
    /\ Len(entry.rows) = 2
    /\ tested = << 1 >>
    /\ Len(heap[ARef]) = 1
    /\ metricsArg # << >>

\* C10: once process_state's call of evaluate_flag is over for a state, the
\* call was accepted and the results are in self.results[state].
C10_ProcessStateStoresResults ==
    (caller \in TabStates /\ pc \in {"returned", "raised"}) =>
        /\ error # "TypeError"
        /\ (error = None => tabResults[caller] = << out >>)

\* The pieces of a text that are operators of a flag expression.
Operators(text) == {text[p] : p \in 1..Len(text)} \cap {"&", "|"}

\* The flags' own names joined by sep.
RECURSIVE NamesJoined(_, _)
NamesJoined(sep, flags) ==
    IF flags = << >> THEN << >>
    ELSE IF Len(flags) = 1 THEN << flags[1].name >>
    ELSE << flags[1].name, sep >> \o NamesJoined(sep, Tail(flags))

\* C11: the metaflag of a FlagTab is its flags' names joined by '&' under
\* intersection and by '|' otherwise, never with both operators in it; the
\* metaflag of a tab with one flag (also the tab's name standing in for the
\* flags) is that flag's own name under either policy.
C11_MetaflagJoinsFlagNames ==
    /\ tab.metaflag =
         NamesJoined(IF tab.intersection THEN "&" ELSE "|", tab.flags)
    /\ Cardinality(Operators(tab.metaflag)) <= 1
    /\ Len(tab.flags) = 1 => tab.metaflag = << tab.flags[1].name >>

====
